---- MODULE Spec2Model ----
(***************************************************************************)
(* The user sub-commands of the FAB auth manager CLI (user_command.py):    *)
(* users_create, users_delete, user_reset_password, add_role / remove_role,*)
(* users_export and users_import / _import_users, run against the security *)
(* manager's user store (appbuilder.sm).                                   *)
(*                                                                         *)
(* One CLI invocation is one operation.  The single-record commands are    *)
(* one action each; _import_users is an ImportStart step (file, schema     *)
(* gate) followed by one ImportRecord step per record of the batch, so     *)
(* that the states between two records are visible.                        *)
(***************************************************************************)
EXTENDS Integers, Sequences, FiniteSets, TLC

\* ------------------------------------------------------------------ bounds
\* longest import batch drawn as input when only users_import runs
MaxBatch == 2
\* longest import batch drawn as input when every command runs
MaxShortBatch == 1

\* ----------------------------------------------------------------- domains
NULL == "null"
Usernames == {"alee", "aleesmith"}
Emails == {"a@x.com", "b@x.com"}
BadEmail == "not-an-email"
NamePairs == {<<"Ann", "Lee">>, <<"Bo", "Kim">>}
\* the roles that exist in the store; this CLI never creates or deletes one
RoleNames == {"Admin", "Viewer"}
UnknownRoleName == "Ghost"
RoleInputs == RoleNames \cup {UnknownRoleName}
\* the role lists of the input records: one role, several roles, an unknown
\* role first, an unknown role after a known one
ImportRoleLists == {<<"Admin">>, <<"Admin", "Viewer">>, <<"Ghost">>,
                    <<"Admin", "Ghost">>}
Passwords == {"pw1"}
\* add_user(password="") of the import path
NoPassword == ""

\* ----------------------------------------------------------------- helpers
Range(s) == {s[k] : k \in 1..Len(s)}

RECURSIVE SetToSortedSeq(_)
SetToSortedSeq(S) ==
    IF S = {} THEN <<>>
    ELSE LET m == CHOOSE x \in S : \A y \in S : x <= y
         IN  <<m>> \o SetToSortedSeq(S \ {m})

\* one entry of the log of what an operation did to the store, in order:
\* call is the sm method (or "acquire"/"release" of get_application_builder,
\* or an in-place edit of a User object), rec the index of the import record
\* being processed (0 outside the import loop), ok whether the call returned
\* a truthy value
Ev(call, rec, ok) == [call |-> call, rec |-> rec, ok |-> ok]
Acquire == Ev("acquire", 0, TRUE)
Release == Ev("release", 0, TRUE)

\* ------------------------------------------------------- the identity store
\* users: id -> User; a User object handed out by find_user is the store's
\* own record, so an in-place edit of it is an edit of users[id]
NoUser == 0

FreeId(u) == CHOOSE n \in 1..(Cardinality(DOMAIN u) + 1) :
                 /\ n \notin DOMAIN u
                 /\ \A m \in 1..(n - 1) : m \in DOMAIN u

\* sm.find_user(username=..., email=...): by username when given, else by email
find_user(u, username, email) ==
    IF username # NULL
    THEN IF \E id \in DOMAIN u : u[id].username = username
         THEN CHOOSE id \in DOMAIN u : u[id].username = username
         ELSE NoUser
    ELSE IF email # NULL
    THEN IF \E id \in DOMAIN u : u[id].email = email
         THEN CHOOSE id \in DOMAIN u : u[id].email = email
         ELSE NoUser
    ELSE NoUser

\* sm.find_role(name): a role is identified by its name
find_role(name) == name \in RoleNames

\* a store that keeps the usernames apart and not the emails
AddAllowed_ByUsername(u, username, email) ==
    \A id \in DOMAIN u : u[id].username # username

\* the store refuses an add_user that would break the uniqueness of username
\* or email
AddAllowed(u, username, email) ==
    \A id \in DOMAIN u : u[id].username # username /\ u[id].email # email

\* sm.add_user(username, first_name, last_name, email, role, password)
add_user(u, username, first_name, last_name, email, roles, password) ==
    LET id == FreeId(u)
    IN  [k \in DOMAIN u \cup {id} |->
            IF k = id
            THEN [username |-> username, email |-> email,
                  first_name |-> first_name, last_name |-> last_name,
                  roles |-> roles, password |-> password]
            ELSE u[k]]

\* sm.del_register_user(user)
del_register_user(u, id) == [k \in DOMAIN u \ {id} |-> u[k]]

\* sm.get_all_users(): in id order
get_all_users(u) == SetToSortedSeq(DOMAIN u)

\* ---------------------------------------------------------------- the state
VARIABLES
    users,          \* the store
    pc,             \* "idle" between two invocations, "importing" inside the
                    \* loop of _import_users, "done" when one has exited
    op,             \* the command of the current / last invocation
    args,           \* its arguments
    before,         \* the store when the invocation started
    result,         \* "ok", "running", or the error it exited with
    trace,          \* what it did to the store, in order (see Ev)
    batch,          \* users_list of _import_users
    idx,            \* index of the next record of batch to process
    prev,           \* the store before the last processed record of batch
    users_created,  \* _import_users' list
    users_updated,  \* _import_users' list
    report,         \* the validation report: set of <<row, field>>
    exported        \* the file written by the last users_export

vars == <<users, pc, op, args, before, result, trace, batch, idx, prev,
          users_created, users_updated, report, exported>>

NoArgs == [username |-> NULL, email |-> NULL, role |-> NULL,
           firstname |-> NULL, lastname |-> NULL, password |-> NULL,
           file |-> NULL]

Init ==
    /\ users = <<>>
    /\ pc = "idle"
    /\ op = "none"
    /\ args = NoArgs
    /\ before = <<>>
    /\ result = "ok"
    /\ trace = <<>>
    /\ batch = <<>>
    /\ idx = 0
    /\ prev = <<>>
    /\ users_created = <<>>
    /\ users_updated = <<>>
    /\ report = {}
    /\ exported = <<>>

\* what every single-record command leaves of the import / export variables
NoImport ==
    /\ batch' = <<>>
    /\ idx' = 0
    /\ prev' = <<>>
    /\ users_created' = <<>>
    /\ users_updated' = <<>>
    /\ report' = {}
    /\ exported' = <<>>

\* a finished invocation: the command, its arguments, its exit, its log and
\* the store it leaves
Finish(cmd, a, res, tr, u) ==
    /\ pc = "idle"
    /\ pc' = "done"
    /\ op' = cmd
    /\ args' = a
    /\ before' = users
    /\ result' = res
    /\ trace' = tr
    /\ users' = u

\* ------------------------------------------------------------- users_create
\* the lookup of the username left out
UsernameTaken_Never(u, username) == FALSE

\* if appbuilder.sm.find_user(args.username)
UsernameTaken(u, username) == find_user(u, username, NULL) # NoUser

users_create(username, firstname, lastname, email, role, password, storeOk) ==
    LET a == [NoArgs EXCEPT !.username = username, !.firstname = firstname,
                            !.lastname = lastname, !.email = email,
                            !.role = role, !.password = password]
        t1 == <<Acquire, Ev("find_role", 0, find_role(role))>>
    IN  /\ NoImport
        /\ IF ~find_role(role)
           THEN Finish("create", a, "UnknownRole",
                       t1 \o <<Ev("get_all_roles", 0, TRUE), Release>>, users)
           ELSE IF UsernameTaken(users, username)
           THEN Finish("create", a, "exists",
                       t1 \o <<Ev("find_user", 0, TRUE), Release>>, users)
           ELSE LET accepted == storeOk /\ AddAllowed(users, username, email)
                    t2 == t1 \o <<Ev("find_user", 0, FALSE),
                                  Ev("add_user", 0, accepted), Release>>
                IN  IF accepted
                    THEN Finish("create", a, "ok", t2,
                                add_user(users, username, firstname, lastname,
                                         email, <<role>>, password))
                    ELSE Finish("create", a, "StoreError", t2, users)

Create ==
    /\ pc = "idle"
    /\ \E username \in Usernames, n \in NamePairs, email \in Emails,
       role \in RoleInputs, password \in Passwords, storeOk \in BOOLEAN :
        users_create(username, n[1], n[2], email, role, password, storeOk)

\* --------------------------------------------------------------- _find_user
\* the exit of _find_user: "ok", or the SystemExit it raises
FindUserExit(u, username, email) ==
    IF username = NULL /\ email = NULL THEN "MissingArgs"
    ELSE IF username # NULL /\ email # NULL THEN "ConflictingArgs"
    ELSE IF find_user(u, username, email) = NoUser THEN "NotFound"
    ELSE "ok"

\* its log: the argument checks come before the store is opened
FindUserTrace(u, username, email) ==
    IF FindUserExit(u, username, email) \in {"MissingArgs", "ConflictingArgs"}
    THEN <<>>
    ELSE <<Acquire,
           Ev("find_user", 0, find_user(u, username, email) # NoUser),
           Release>>

\* ------------------------------------------------------ user_reset_password
user_reset_password(username, email, password, storeOk) ==
    LET a == [NoArgs EXCEPT !.username = username, !.email = email,
                            !.password = password]
        ex == FindUserExit(users, username, email)
        t1 == FindUserTrace(users, username, email)
        id == find_user(users, username, email)
        t2 == t1 \o <<Acquire, Ev("reset_password", 0, storeOk), Release>>
    IN  /\ NoImport
        /\ IF ex # "ok" THEN Finish("reset_password", a, ex, t1, users)
           ELSE IF storeOk
           THEN Finish("reset_password", a, "ok", t2,
                       [users EXCEPT ![id].password = password])
           ELSE Finish("reset_password", a, "StoreError", t2, users)

ResetPassword ==
    /\ pc = "idle"
    /\ \E username \in Usernames \cup {NULL}, email \in Emails \cup {NULL},
       password \in Passwords, storeOk \in BOOLEAN :
        user_reset_password(username, email, password, storeOk)

\* ------------------------------------------------------------- users_delete
\* the clearing undone when the deletion fails
ClearRoles_RolledBack(u, id) == u

\* user.roles.clear()
ClearRoles(u, id) == [u EXCEPT ![id].roles = <<>>]

users_delete(username, email, storeOk) ==
    LET a == [NoArgs EXCEPT !.username = username, !.email = email]
        ex == FindUserExit(users, username, email)
        t1 == FindUserTrace(users, username, email)
        id == find_user(users, username, email)
        \* user.roles.clear(): after _find_user has closed the store, before
        \* it is opened again
        cleared == ClearRoles(users, id)
        t2 == t1 \o <<Ev("roles.clear", 0, TRUE), Acquire,
                      Ev("del_register_user", 0, storeOk), Release>>
    IN  /\ NoImport
        /\ IF ex # "ok" THEN Finish("delete", a, ex, t1, users)
           ELSE IF storeOk
           THEN Finish("delete", a, "ok", t2, del_register_user(cleared, id))
           ELSE Finish("delete", a, "StoreError", t2, cleared)

Delete ==
    /\ pc = "idle"
    /\ \E username \in Usernames \cup {NULL}, email \in Emails \cup {NULL},
       storeOk \in BOOLEAN :
        users_delete(username, email, storeOk)

\* -------------------------------------------------------- users_manage_role
\* the membership test left out
IsMember_Never(roles, role) == FALSE

\* role in user.roles
IsMember(roles, role) == role \in Range(roles)

\* every role taken away with the one named
WithoutRole_All(roles, role) == <<>>

\* [r for r in user.roles if r != role]
WithoutRole(roles, role) == SelectSeq(roles, LAMBDA r : r # role)

users_manage_role(username, email, role, remove, storeOk) ==
    LET cmd == IF remove THEN "remove_role" ELSE "add_role"
        a == [NoArgs EXCEPT !.username = username, !.email = email,
                            !.role = role]
        ex == FindUserExit(users, username, email)
        t1 == FindUserTrace(users, username, email)
        id == find_user(users, username, email)
        t2 == t1 \o <<Acquire, Ev("find_role", 0, find_role(role))>>
        member == IsMember(users[id].roles, role)
        \* the result of update_user is not looked at
        t3 == t2 \o <<Ev("set_roles", 0, TRUE),
                      Ev("update_user", 0, storeOk), Release>>
    IN  /\ NoImport
        /\ IF ex # "ok" THEN Finish(cmd, a, ex, t1, users)
           ELSE IF ~find_role(role)
           THEN Finish(cmd, a, "UnknownRole",
                       t2 \o <<Ev("get_all_roles", 0, TRUE), Release>>, users)
           ELSE IF remove
           THEN IF ~member
                THEN Finish(cmd, a, "NotMember", t2 \o <<Release>>, users)
                ELSE Finish(cmd, a, "ok", t3,
                            [users EXCEPT ![id].roles =
                                              WithoutRole(@, role)])
           ELSE IF member
                THEN Finish(cmd, a, "AlreadyMember", t2 \o <<Release>>, users)
                ELSE Finish(cmd, a, "ok", t3,
                            [users EXCEPT ![id].roles = Append(@, role)])

add_role ==
    /\ pc = "idle"
    /\ \E username \in Usernames \cup {NULL}, email \in Emails \cup {NULL},
       role \in RoleInputs, storeOk \in BOOLEAN :
        users_manage_role(username, email, role, FALSE, storeOk)

remove_role ==
    /\ pc = "idle"
    /\ \E username \in Usernames \cup {NULL}, email \in Emails \cup {NULL},
       role \in RoleInputs, storeOk \in BOOLEAN :
        users_manage_role(username, email, role, TRUE, storeOk)

\* ------------------------------------------------------------- users_export
Reverse(s) == [k \in 1..Len(s) |-> s[Len(s) + 1 - k]]

\* the role names put in another order than the store's
Snapshot_RolesReversed(u, id) ==
    [id |-> id, username |-> u[id].username, email |-> u[id].email,
     firstname |-> u[id].first_name, lastname |-> u[id].last_name,
     roles |-> Reverse(u[id].roles)]

\* first_name and last_name written under each other's key
Snapshot_NamesSwapped(u, id) ==
    [id |-> id, username |-> u[id].username, email |-> u[id].email,
     firstname |-> u[id].last_name, lastname |-> u[id].first_name,
     roles |-> u[id].roles]

\* one exported object: the fields of the User with the underscores removed
\* from the keys, roles as the list of role names
Snapshot(u, id) ==
    [id |-> id, username |-> u[id].username, email |-> u[id].email,
     firstname |-> u[id].first_name, lastname |-> u[id].last_name,
     roles |-> u[id].roles]

ExportOf(u) ==
    LET ids == get_all_users(u)
    IN  [k \in 1..Len(ids) |-> Snapshot(u, ids[k])]

users_export ==
    /\ pc = "idle"
    /\ Finish("export", [NoArgs EXCEPT !.file = "export"], "ok",
              <<Acquire, Ev("get_all_users", 0, TRUE), Release>>, users)
    /\ exported' = ExportOf(users)
    /\ batch' = <<>>
    /\ idx' = 0
    /\ prev' = <<>>
    /\ users_created' = <<>>
    /\ users_updated' = <<>>
    /\ report' = {}

\* --------------------------------------------------------------- UserSchema
WellFormedEmails == Emails

\* the fields of one item that UserSchema rejects
RecordErrors(r) ==
    {f \in {"firstname", "lastname", "username"} : f \notin DOMAIN r}
    \cup (IF "email" \notin DOMAIN r THEN {"email"}
          ELSE IF r.email \notin WellFormedEmails THEN {"email"} ELSE {})
    \cup (IF "roles" \notin DOMAIN r THEN {"roles"}
          ELSE IF Len(r.roles) < 1 THEN {"roles"} ELSE {})

\* a schema that looks at the first item only
SchemaErrors_FirstOnly(b) ==
    IF Len(b) = 0 THEN {} ELSE {<<0, f>> : f \in RecordErrors(b[1])}

\* UserSchema(many=True).load(users_list): the messages of the
\* ValidationError, by row (from 0) and field
SchemaErrors(b) ==
    UNION {{<<k - 1, f>> : f \in RecordErrors(b[k])} : k \in 1..Len(b)}

\* ------------------------------------------------- users_import, the inputs
ValidRecords ==
    {[firstname |-> n[1], lastname |-> n[2], username |-> u, email |-> e,
      roles |-> rs] :
        n \in NamePairs, u \in Usernames, e \in Emails, rs \in ImportRoleLists}

\* one record for each way of failing the schema
InvalidRecords ==
    {[lastname |-> "Lee", username |-> "alee", email |-> "a@x.com",
      roles |-> <<"Admin">>],
     [firstname |-> "Ann", username |-> "alee", email |-> "a@x.com",
      roles |-> <<"Admin">>],
     [firstname |-> "Ann", lastname |-> "Lee", email |-> "a@x.com",
      roles |-> <<"Admin">>],
     [firstname |-> "Ann", lastname |-> "Lee", username |-> "alee",
      email |-> BadEmail, roles |-> <<"Admin">>],
     [firstname |-> "Ann", lastname |-> "Lee", username |-> "alee",
      email |-> "a@x.com"],
     [firstname |-> "Ann", lastname |-> "Lee", username |-> "alee",
      email |-> "a@x.com", roles |-> <<>>]}

InputRecords == ValidRecords \cup InvalidRecords

\* the records of the long batches: the one-role records carry the first
\* pair of names, the two-role records the other one
BatchRecords ==
    {r \in ValidRecords : (Len(r.roles) = 1) = (r.firstname = "Ann")}
    \cup InvalidRecords

Batches == UNION {[1..n -> BatchRecords] : n \in 0..MaxBatch}
ShortBatches == UNION {[1..n -> InputRecords] : n \in 0..MaxShortBatch}

\* ------------------------------------------- users_import and _import_users
\* the file is missing or is not JSON: users_import exits before
\* _import_users is called
ImportBadFile ==
    /\ pc = "idle"
    /\ \E res \in {"FileNotFound", "InvalidJSON"} :
        /\ Finish("import", [NoArgs EXCEPT !.file = "unreadable"], res,
                  <<>>, users)
        /\ NoImport

\* the store is opened, the whole of users_list goes through the schema, and
\* only then does the loop start
StartImport(b, file) ==
    LET errors == SchemaErrors(b)
    IN  /\ op' = "import"
        /\ args' = [NoArgs EXCEPT !.file = file]
        /\ before' = users
        /\ batch' = b
        /\ prev' = users
        /\ users_created' = <<>>
        /\ users_updated' = <<>>
        /\ exported' = <<>>
        /\ report' = errors
        /\ UNCHANGED users
        /\ IF errors # {}
           THEN /\ pc' = "done"
                /\ result' = "ValidationError"
                /\ trace' = <<Acquire, Release>>
                /\ idx' = 0
           ELSE IF Len(b) = 0
           THEN /\ pc' = "done"
                /\ result' = "ok"
                /\ trace' = <<Acquire, Release>>
                /\ idx' = 1
           ELSE /\ pc' = "importing"
                /\ result' = "running"
                /\ trace' = <<Acquire>>
                /\ idx' = 1

ImportStart ==
    /\ pc = "idle"
    /\ \E b \in Batches : StartImport(b, "input")

ImportShort ==
    /\ pc = "idle"
    /\ \E b \in ShortBatches : StartImport(b, "input")

\* users_import of the file the users_export just before has written
Reimport ==
    /\ pc = "done"
    /\ op = "export"
    /\ StartImport(exported, "export")

\* a resolution that looks at the first role name only
FirstUnknown_HeadOnly(roles) == IF find_role(roles[1]) THEN 0 ELSE 1

\* position of the first role name of the list that find_role does not know,
\* 0 when all resolve
FirstUnknown(roles) ==
    IF \E k \in 1..Len(roles) : ~find_role(roles[k])
    THEN CHOOSE k \in 1..Len(roles) :
             /\ ~find_role(roles[k])
             /\ \A j \in 1..(k - 1) : find_role(roles[j])
    ELSE 0

\* the find_role calls of one record, up to and including the first that fails
ResolveTrace(roles, rec) ==
    LET k == FirstUnknown(roles)
        n == IF k = 0 THEN Len(roles) ELSE k
    IN  [j \in 1..n |-> Ev("find_role", rec, find_role(roles[j]))]

\* the username comparison left out
UsernameChanged_Ignored(existing, user) == FALSE

\* existing_user.username != user["username"]
UsernameChanged(existing, user) == existing.username # user.username

\* the new roles added to the old ones instead of replacing them
UpdateExisting_Merge(u, id, user) ==
    [u EXCEPT ![id].roles =
                  @ \o SelectSeq(user.roles, LAMBDA r : r \notin Range(@)),
              ![id].first_name = user.firstname,
              ![id].last_name = user.lastname]

\* the roles and names of the record given to every user of the store
UpdateExisting_Everyone(u, id, user) ==
    [k \in DOMAIN u |-> [u[k] EXCEPT !.roles = user.roles,
                                     !.first_name = user.firstname,
                                     !.last_name = user.lastname]]

\* existing_user.roles = roles; .first_name = ...; .last_name = ...
UpdateExisting(u, id, user) ==
    [u EXCEPT ![id].roles = user.roles,
              ![id].first_name = user.firstname,
              ![id].last_name = user.lastname]

\* only the first resolved role handed to add_user
CreateNew_FirstRole(u, user) ==
    add_user(u, user.username, user.firstname, user.lastname, user.email,
             <<user.roles[1]>>, NoPassword)

\* sm.add_user(username=..., first_name=..., last_name=..., email=...,
\* role=roles), no password
CreateNew(u, user) ==
    add_user(u, user.username, user.firstname, user.lastname, user.email,
             user.roles, NoPassword)

\* the email put in front of the list
Reported_InFront(list, email) == <<email>> \o list

\* users_created.append(...) / users_updated.append(...)
Reported(list, email) == Append(list, email)

\* the body of the loop for users_list[idx]
ImportRecord(storeOk) ==
    LET user == batch[idx]
        last == idx = Len(batch)
        t1 == trace \o ResolveTrace(user.roles, idx)
        id == find_user(users, NULL, user.email)
        t2 == t1 \o <<Ev("find_user", idx, id # NoUser)>>
        accepted == storeOk /\ AddAllowed(users, user.username, user.email)
        Abort(res, tr) ==
            /\ pc' = "done"
            /\ result' = res
            /\ trace' = tr \o <<Release>>
            /\ UNCHANGED <<users, idx, users_created, users_updated>>
        Continue(tr) ==
            /\ idx' = idx + 1
            /\ pc' = IF last THEN "done" ELSE "importing"
            /\ result' = IF last THEN "ok" ELSE "running"
            /\ trace' = IF last THEN tr \o <<Release>> ELSE tr
    IN  /\ pc = "importing"
        /\ prev' = users
        /\ UNCHANGED <<op, args, before, batch, report, exported>>
        /\ IF FirstUnknown(user.roles) # 0
           THEN Abort("UnknownRole",
                      t1 \o <<Ev("get_all_roles", idx, TRUE)>>)
           ELSE IF id # NoUser
           THEN IF UsernameChanged(users[id], user)
                THEN Abort("IdentityConflict", t2)
                ELSE /\ users' = UpdateExisting(users, id, user)
                     /\ users_updated' = Reported(users_updated, user.email)
                     /\ UNCHANGED users_created
                     /\ Continue(t2 \o <<Ev("set_roles", idx, TRUE),
                                         Ev("update_user", idx, storeOk)>>)
           ELSE /\ users' = IF accepted THEN CreateNew(users, user) ELSE users
                /\ users_created' = Reported(users_created, user.email)
                /\ UNCHANGED users_updated
                /\ Continue(t2 \o <<Ev("add_user", idx, accepted)>>)

ImportStep == \E storeOk \in BOOLEAN : ImportRecord(storeOk)

\* the process of the invocation is gone: the next command starts from the
\* store alone
Exit ==
    /\ pc = "done"
    /\ pc' = "idle"
    /\ op' = "none"
    /\ args' = NoArgs
    /\ before' = <<>>
    /\ result' = "ok"
    /\ trace' = <<>>
    /\ NoImport
    /\ UNCHANGED users

\* every command, the import with short batches
Next ==
    \/ Exit
    \/ Create
    \/ add_role
    \/ remove_role
    \/ ResetPassword
    \/ Delete
    \/ users_export
    \/ ImportBadFile
    \/ ImportShort
    \/ Reimport
    \/ ImportStep

Spec == Init /\ [][Next]_vars

\* users_import alone, with the long batches
NextImport ==
    \/ Exit
    \/ ImportBadFile
    \/ ImportStart
    \/ ImportStep

SpecImport == Init /\ [][NextImport]_vars

\* ------------------------------------------------------------------- claims
\* the entries of a log whose call is one of names
Calls(tr, names) == SelectSeq(tr, LAMBDA e : e.call \in names)
\* the entries of a log made for record j of the batch
CallsFor(tr, names, j) ==
    SelectSeq(tr, LAMBDA e : e.call \in names /\ e.rec = j)

Lookups == {"find_role", "get_all_roles", "find_user"}
Mutations == {"add_user", "update_user"}
Edits == {"set_roles", "roles.clear"}

\* _import_users has been entered
InImport == op = "import" /\ args.file # "unreadable"

ViolatesSchema(r) == RecordErrors(r) # {}
HasUnknownRole(r) == \E k \in 1..Len(r.roles) : r.roles[k] \notin RoleNames

\* C1: when any record of the batch, at any index, violates the schema, the
\* import exits with the validation error having made no role lookup, no
\* user lookup, no add_user and no update_user, and the store is as it was
\* before the call.
C1_ValidationGate ==
    (InImport /\ \E k \in 1..Len(batch) : ViolatesSchema(batch[k]))
    => /\ pc = "done"
       /\ result = "ValidationError"
       /\ users = before
       /\ Calls(trace, Lookups \cup Mutations \cup Edits) = <<>>

\* a valid record followed by an invalid last one, against a store that
\* holds a user
C1_Witness ==
    /\ InImport
    /\ Len(batch) = 2
    /\ ~ViolatesSchema(batch[1])
    /\ ~HasUnknownRole(batch[1])
    /\ ViolatesSchema(batch[2])
    /\ result = "ValidationError"
    /\ DOMAIN before # {}

\* C2: when the loop reaches a record k that holds an unknown role name, in
\* any position of its role list, the import exits with UnknownRole at that
\* record: no find_user, add_user or update_user is issued for record k or
\* a later one, nothing is reported for it, every record before k has had
\* its add_user or update_user, and the store keeps what those records did
\* to it.
C2_UnknownRoleStops ==
    [][(pc = "importing" /\ HasUnknownRole(batch[idx]))
       => /\ pc' = "done"
          /\ result' = "UnknownRole"
          /\ idx' = idx
          /\ users' = users
          /\ users_created' = users_created
          /\ users_updated' = users_updated
          /\ \A j \in 1..(idx - 1) :
                 Len(CallsFor(trace', Mutations, j)) = 1
          /\ \A n \in 1..Len(trace') :
                 trace'[n].rec >= idx
                 => trace'[n].call \notin {"find_user"} \cup Mutations
                                                       \cup Edits]_vars

\* the second record has the unknown role after a known one, and the first
\* record has changed the store
C2_Witness ==
    /\ InImport
    /\ result = "UnknownRole"
    /\ idx = 2
    /\ batch[2].roles = <<"Admin", "Ghost">>
    /\ users # before
    /\ users = prev

\* the loop has run for at least one record; Rec is the index of the record
\* it ran for last, and prev the store as that record found it
Stepped ==
    /\ InImport
    /\ result # "ValidationError"
    /\ \/ result \in {"UnknownRole", "IdentityConflict"}
       \/ idx > 1
Rec == IF result \in {"UnknownRole", "IdentityConflict"} THEN idx ELSE idx - 1
Last(list) == list[Len(list)]

HoldersOf(u, email) == {id \in DOMAIN u : u[id].email = email}
\* the store's answer to the add_user of record j
Accepted(j) == \E n \in 1..Len(trace) :
                  trace[n] = Ev("add_user", j, TRUE)
Carries(user, r) ==
    /\ user.username = r.username
    /\ user.first_name = r.firstname
    /\ user.last_name = r.lastname
    /\ user.email = r.email
    /\ user.roles = r.roles
\* u is v with exactly one more user, and that user carries r
OneMore(v, u, r) ==
    /\ Cardinality(DOMAIN u) = Cardinality(DOMAIN v) + 1
    /\ \A id \in DOMAIN v : id \in DOMAIN u /\ u[id] = v[id]
    /\ \A id \in DOMAIN u \ DOMAIN v : Carries(u[id], r)

C4_UpdateReplaces ==
    \A id \in DOMAIN prev :
        (Stepped /\ ~HasUnknownRole(batch[Rec])
                 /\ prev[id].email = batch[Rec].email
                 /\ prev[id].username = batch[Rec].username)
        => /\ result \in {"running", "ok"}
           /\ DOMAIN users = DOMAIN prev
           /\ users[id].roles = batch[Rec].roles
           /\ users[id].first_name = batch[Rec].firstname
           /\ users[id].last_name = batch[Rec].lastname
           /\ users[id].username = prev[id].username
           /\ users[id].email = prev[id].email
           /\ users[id].password = prev[id].password
           /\ \A k \in DOMAIN prev \ {id} : users[k] = prev[k]
           /\ Len(CallsFor(trace, {"update_user"}, Rec)) = 1
           /\ CallsFor(trace, {"add_user"}, Rec) = <<>>
           /\ users_updated # <<>>
           /\ Last(users_updated) = batch[Rec].email

\* the user held a role the record does not name, and other names
C4_Witness ==
    \E id \in DOMAIN prev :
        /\ Stepped
        /\ result = "ok"
        /\ prev[id].email = batch[Rec].email
        /\ prev[id].username = batch[Rec].username
        /\ "Viewer" \in Range(prev[id].roles)
        /\ users[id].roles = <<"Admin">>
        /\ prev[id].first_name # users[id].first_name
        /\ prev[id].last_name # users[id].last_name

\* the records of the batch, in order, for which the log holds the call
RecsWith(call) ==
    SelectSeq([j \in 1..Len(batch) |-> j],
              LAMBDA j : CallsFor(trace, {call}, j) # <<>>)
EmailsOf(js) == [n \in 1..Len(js) |-> batch[js[n]].email]

\* C5 as stated: every record whose email is held by a user with another
\* username ends the import with IdentityConflict, that user is as it was
\* before the record, and the email is neither in users_created nor in
\* users_updated.
C5_Original ==
    \A id \in DOMAIN prev :
        (Stepped /\ prev[id].email = batch[Rec].email
                 /\ prev[id].username # batch[Rec].username)
        => /\ pc = "done"
           /\ result = "IdentityConflict"
           /\ id \in DOMAIN users
           /\ users[id] = prev[id]
           /\ batch[Rec].email \notin Range(users_created)
           /\ batch[Rec].email \notin Range(users_updated)

\* C5 amended: every record with resolvable roles whose email is held by a
\* user with another username ends the import with IdentityConflict at that
\* record; that user and the rest of the store are as they were before the
\* record, no add_user or update_user is issued for it, and the record adds
\* nothing to users_created or users_updated, which hold what the earlier
\* records of the batch put there (the same email, possibly).
C5_ConflictStops ==
    \A id \in DOMAIN prev :
        (Stepped /\ ~HasUnknownRole(batch[Rec])
                 /\ prev[id].email = batch[Rec].email
                 /\ prev[id].username # batch[Rec].username)
        => /\ pc = "done"
           /\ result = "IdentityConflict"
           /\ idx = Rec
           /\ users = prev
           /\ CallsFor(trace, Mutations \cup Edits, Rec) = <<>>
           /\ users_created = EmailsOf(RecsWith("add_user"))
           /\ users_updated = EmailsOf(RecsWith("update_user"))
           /\ Len(users_created) + Len(users_updated) = Rec - 1

\* the second record of the batch met a user with another username, after
\* the first record had been applied
C5_Witness ==
    \E id \in DOMAIN prev :
        /\ Stepped
        /\ result = "IdentityConflict"
        /\ Rec = 2
        /\ prev[id].email = batch[2].email
        /\ prev[id].username # batch[2].username
        /\ users[id].username = prev[id].username
        /\ prev # before

\* C7: the loop takes the records in batch order, one at a time, and every
\* record it completes has exactly one add_user or update_user and its
\* email in users_created or users_updated accordingly, so that each list
\* holds its emails in batch order; when the import returns, the two lists
\* together are as long as the batch.
C7_OrderedReport ==
    (InImport /\ result # "ValidationError")
    => /\ \A m, n \in 1..Len(trace) :
              (m < n /\ trace[n].rec # 0) => trace[m].rec <= trace[n].rec
       /\ \A j \in 1..Len(batch) :
              Len(CallsFor(trace, Mutations, j))
                  = (IF j < idx /\ idx > 0 THEN 1 ELSE 0)
       /\ users_created = EmailsOf(RecsWith("add_user"))
       /\ users_updated = EmailsOf(RecsWith("update_user"))
       /\ Len(users_created) + Len(users_updated)
              = (IF idx > 0 THEN idx - 1 ELSE 0)
       /\ result = "ok" => Len(users_created) + Len(users_updated)
                               = Len(batch)
       /\ pc = "importing" => idx <= Len(batch)

\* two records, two emails, both created, in batch order
C7_Witness ==
    /\ InImport
    /\ result = "ok"
    /\ Len(batch) = 2
    /\ batch[1].email # batch[2].email
    /\ users_created = <<batch[1].email, batch[2].email>>
    /\ users_updated = <<>>

\* C8 as stated: when the store refuses the add_user or update_user of
\* record k, the import stops at k with a store error, nothing is issued for
\* a later record, and the email of record k is not put in users_created or
\* users_updated.
C8_FailFast ==
    \A n \in 1..Len(trace) :
        (InImport /\ trace[n].call \in Mutations /\ ~trace[n].ok)
        => /\ pc = "done"
           /\ result = "StoreError"
           /\ \A m \in 1..Len(trace) : trace[m].rec <= trace[n].rec
           /\ Len(users_created) + Len(users_updated) < trace[n].rec

\* C6 as stated: the import of the file that users_export has just written
\* always succeeds, with the email of every user of the store in
\* users_updated and nothing in users_created.
C6_ReimportUpdatesAll ==
    (InImport /\ args.file = "export")
    => /\ result \in {"running", "ok"}
       /\ users_created = <<>>
       /\ pc = "done"
          => /\ Range(users_updated) = {before[id].email : id \in DOMAIN before}
             /\ Len(users_updated) = Cardinality(DOMAIN before)

\* C9 as stated: every user of the store has at least one role, whatever
\* commands have run, failed ones included.
C9_AtLeastOneRole ==
    \A id \in DOMAIN users : Len(users[id].roles) >= 1

\* the users of the store that the --username / --email of the command names
TargetsOf(u, a) ==
    {id \in DOMAIN u :
        IF a.username # NULL THEN u[id].username = a.username
        ELSE u[id].email = a.email}
\* the command named exactly one of --username / --email, a user the store
\* holds, and a role that exists
RoleCommandApplies(cmd) ==
    /\ op = cmd
    /\ (args.username = NULL) # (args.email = NULL)
    /\ args.role \in RoleNames
    /\ TargetsOf(before, args) # {}

\* C10: add_role for a role the user holds exits with "already a member",
\* remove_role for a role the user does not hold exits with "not a member";
\* in both cases no update_user is sent, no User is edited and the store is
\* as it was.  (So the second of two add_role of one role to one user
\* fails.)
C10_MembershipChecked ==
    \A id \in DOMAIN before :
        /\ (RoleCommandApplies("add_role") /\ id \in TargetsOf(before, args)
               /\ args.role \in Range(before[id].roles))
           => /\ result = "AlreadyMember"
              /\ users = before
              /\ Calls(trace, Mutations \cup Edits) = <<>>
        /\ (RoleCommandApplies("remove_role")
               /\ id \in TargetsOf(before, args)
               /\ args.role \notin Range(before[id].roles))
           => /\ result = "NotMember"
              /\ users = before
              /\ Calls(trace, Mutations \cup Edits) = <<>>

\* add_role of a role that an earlier add_role gave the user
C10_Witness ==
    \E id \in DOMAIN before :
        /\ RoleCommandApplies("add_role")
        /\ id \in TargetsOf(before, args)
        /\ before[id].roles = <<"Viewer", "Admin">>
        /\ args.role = "Admin"
        /\ result = "AlreadyMember"
        /\ users = before

\* the roles of a list other than role, in the order of the list
Others(roles, role) == SelectSeq(roles, LAMBDA r : r # role)
\* the command named exactly one of --username / --email
OneKey == (args.username = NULL) # (args.email = NULL)

\* C11: an add_role or remove_role that returns normally has changed one
\* user only, the one the command names: its roles are the old ones plus
\* the role (once) after add_role, the old ones minus the role after
\* remove_role, its other roles are kept in their order, its id, username,
\* email, names and password are as before, and every other user of the
\* store is as before; exactly one update_user has been sent.
C11_OneRoleOneUser ==
    \A id \in DOMAIN before :
        (op \in {"add_role", "remove_role"} /\ result = "ok"
            /\ id \in TargetsOf(before, args))
        => /\ TargetsOf(before, args) = {id}
           /\ DOMAIN users = DOMAIN before
           /\ Range(users[id].roles) =
                  (IF op = "add_role"
                   THEN Range(before[id].roles) \cup {args.role}
                   ELSE Range(before[id].roles) \ {args.role})
           /\ Len(users[id].roles) =
                  (IF op = "add_role" THEN Len(before[id].roles) + 1
                   ELSE Len(before[id].roles) - 1)
           /\ Others(users[id].roles, args.role)
                  = Others(before[id].roles, args.role)
           /\ [users[id] EXCEPT !.roles = before[id].roles] = before[id]
           /\ \A k \in DOMAIN before \ {id} : users[k] = before[k]
           /\ Len(Calls(trace, {"update_user"})) = 1

\* remove_role took one of the two roles of a user, next to another user
C11_Witness ==
    \E id \in DOMAIN before :
        /\ op = "remove_role"
        /\ result = "ok"
        /\ id \in TargetsOf(before, args)
        /\ before[id].roles = <<"Admin", "Viewer">>
        /\ args.role = "Admin"
        /\ users[id].roles = <<"Viewer">>
        /\ Cardinality(DOMAIN before) = 2

\* the positions of a call in the log
Positions(call) == {n \in 1..Len(trace) : trace[n].call = call}

\* C12: users_delete of an existing user first clears the roles of the User
\* and only then sends del_register_user; when the store refuses the
\* deletion the command fails and the user stays in the store with no role,
\* otherwise unchanged; when it accepts, the user is gone from the store;
\* every other user is as before in both cases.
C12_TwoPhaseDelete ==
    \A id \in DOMAIN before :
        (op = "delete" /\ OneKey /\ id \in TargetsOf(before, args))
        => /\ Cardinality(Positions("roles.clear")) = 1
           /\ Cardinality(Positions("del_register_user")) = 1
           /\ \A m \in Positions("roles.clear"),
                 n \in Positions("del_register_user") : m < n
           /\ \A k \in DOMAIN before \ {id} :
                  k \in DOMAIN users /\ users[k] = before[k]
           /\ \A n \in Positions("del_register_user") :
                  IF trace[n].ok
                  THEN /\ result = "ok"
                       /\ DOMAIN users = DOMAIN before \ {id}
                  ELSE /\ result = "StoreError"
                       /\ DOMAIN users = DOMAIN before
                       /\ users[id] = [before[id] EXCEPT !.roles = <<>>]

\* the store refused the deletion of a user that had roles
C12_Witness ==
    \E id \in DOMAIN before :
        /\ op = "delete"
        /\ result = "StoreError"
        /\ id \in TargetsOf(before, args)
        /\ before[id].roles # <<>>
        /\ id \in DOMAIN users
        /\ users[id].roles = <<>>
        /\ Cardinality(DOMAIN before) = 2

Depth(tr, n) ==
    Cardinality({m \in 1..(n - 1) : tr[m].call = "acquire"})
    - Cardinality({m \in 1..(n - 1) : tr[m].call = "release"})

\* C14 as stated: every read and every edit of user or role data that a
\* command makes is made while a store scope is open, and every scope the
\* command opened is closed when it has exited, normally or with an error.
C14_ScopedAccess ==
    /\ \A n \in 1..Len(trace) :
           trace[n].call \notin {"acquire", "release"}
           => Depth(trace, n) >= 1
    /\ \A n \in 1..(Len(trace) + 1) : Depth(trace, n) >= 0
    /\ pc = "done" => Depth(trace, Len(trace) + 1) = 0

\* C15: the file of users_export holds one object per user of the store, in
\* the order of get_all_users, each with exactly the keys id, username,
\* email, firstname, lastname and roles, firstname and lastname holding
\* first_name and last_name and roles the user's role names in the order
\* the store has them; the store is as before.
C15_ExportSnapshot ==
    op = "export"
    => /\ users = before
       /\ Len(exported) = Cardinality(DOMAIN users)
       /\ \A k \in 1..Len(exported) :
              /\ DOMAIN exported[k] = {"id", "username", "email", "firstname",
                                       "lastname", "roles"}
              /\ exported[k].id \in DOMAIN users
              /\ exported[k].id = get_all_users(users)[k]
              /\ exported[k].username = users[exported[k].id].username
              /\ exported[k].email = users[exported[k].id].email
              /\ exported[k].firstname = users[exported[k].id].first_name
              /\ exported[k].lastname = users[exported[k].id].last_name
              /\ exported[k].roles = users[exported[k].id].roles
       /\ \A k, l \in 1..Len(exported) :
              k < l => exported[k].id < exported[l].id

\* two users exported, one of them with its roles not in name order
C15_Witness ==
    /\ op = "export"
    /\ Len(exported) = 2
    /\ \E k \in 1..2 : exported[k].roles = <<"Viewer", "Admin">>
    /\ exported[1].firstname # exported[1].lastname

\* a user of u holds the email of record r under another username
Conflicts(u, r) ==
    \E id \in DOMAIN u : u[id].email = r.email /\ u[id].username # r.username

\* C16: when the loop reaches a record k whose roles resolve and whose
\* email a user holds under another username, the import exits there with
\* IdentityConflict: the store stays as records 1..k-1 left it (each of
\* them has had its add_user or update_user, and nothing is undone), no
\* user is edited and no add_user or update_user is sent for record k,
\* nothing is reported for it, and no call at all is made for a record
\* after k.
C16_ConflictIsFatal ==
    [][(pc = "importing" /\ ~HasUnknownRole(batch[idx])
           /\ Conflicts(users, batch[idx]))
       => /\ pc' = "done"
          /\ result' = "IdentityConflict"
          /\ idx' = idx
          /\ users' = users
          /\ users_created' = users_created
          /\ users_updated' = users_updated
          /\ \A j \in 1..(idx - 1) :
                 Len(CallsFor(trace', Mutations, j)) = 1
          /\ CallsFor(trace', Mutations \cup Edits, idx) = <<>>
          /\ \A n \in 1..Len(trace') : trace'[n].rec <= idx
          /\ trace'[Len(trace')] = Release]_vars

\* the first of two records met the conflict; the second one, which names
\* no user of the store and has known roles, was never looked at
C16_Witness ==
    /\ InImport
    /\ result = "IdentityConflict"
    /\ idx = 1
    /\ Len(batch) = 2
    /\ Conflicts(users, batch[1])
    /\ ~HasUnknownRole(batch[2])
    /\ HoldersOf(users, batch[2].email) = {}
    /\ users = before
    /\ \A n \in 1..Len(trace) : trace[n].rec <= 1

\* C17: during and after the import of the file that users_export has just
\* written, whether it returns or exits with an error, the store holds the
\* users it held at the export, each with the id, username, email, names,
\* roles and password it had; no add_user is sent and no user is reported
\* as created.
C17_ExportImportNoOp ==
    (InImport /\ args.file = "export")
    => /\ batch = ExportOf(before)
       /\ DOMAIN users = DOMAIN before
       /\ \A id \in DOMAIN before : users[id] = before[id]
       /\ Calls(trace, {"add_user", "del_register_user"}) = <<>>
       /\ users_created = <<>>

\* the file held two users, one of them with two roles, and both were
\* updated
C17_Witness ==
    /\ InImport
    /\ args.file = "export"
    /\ result = "ok"
    /\ Len(batch) = 2
    /\ Len(users_updated) = 2
    /\ \E id \in DOMAIN before : Len(before[id].roles) = 2
    /\ \E id \in DOMAIN before : before[id].first_name = "Bo"
    /\ users = before

\* the records among the first j of the batch that carry the email
WithEmail(email, j) == {i \in 1..j : batch[i].email = email}
Count(list, x) == Cardinality({n \in 1..Len(list) : list[n] = x})
\* records i and j are the first two of the batch with their email, have
\* one username, and no user held that email when the import started
FirstTwo(i, j) ==
    /\ i < j
    /\ batch[i].email = batch[j].email
    /\ batch[i].username = batch[j].username
    /\ WithEmail(batch[j].email, j) = {i, j}
    /\ HoldersOf(before, batch[j].email) = {}

BatchEmails ==
    {batch[k].email : k \in {n \in 1..Len(batch) : "email" \in DOMAIN batch[n]}}

\* C19: in every state of an import, whether it is running, has returned or
\* has exited with an error, every user the store held when it started is
\* still there under its id, with the email, username and password it had,
\* and wholly as it was when no record of the batch carries its email; the
\* users that were not there carry an email of the batch; no deletion and
\* no clearing of roles is ever made.
C19_ImportFrame ==
    InImport
    => /\ \A id \in DOMAIN before :
              /\ id \in DOMAIN users
              /\ users[id].email = before[id].email
              /\ users[id].username = before[id].username
              /\ users[id].password = before[id].password
              /\ before[id].email \notin BatchEmails => users[id] = before[id]
       /\ \A id \in DOMAIN users \ DOMAIN before :
              users[id].email \in BatchEmails
       /\ Calls(trace, {"del_register_user", "roles.clear"}) = <<>>

\* the import has changed one of two users; no record carries the email of
\* the other one
C19_Witness ==
    /\ InImport
    /\ result = "ok"
    /\ Cardinality(DOMAIN before) = 2
    /\ \E id \in DOMAIN before : /\ before[id].email \notin BatchEmails
                                 /\ users[id] = before[id]
    /\ \E id \in DOMAIN before : /\ before[id].email \in BatchEmails
                                 /\ users[id].roles # before[id].roles
                                 /\ users[id].first_name # before[id].first_name

\* C20: users_create looks up the role first: with a role that does not
\* exist it exits with the error, having looked up no user and sent no
\* add_user, and the store is as before.  With a username that a user
\* holds it sends no add_user and the store (that user's email, names,
\* roles and password included) is as before.  Otherwise it sends one
\* add_user: when the store accepts it, the store has exactly one more
\* user, with the arguments' username, names, email and password and the
\* one role; when the store refuses it, the command fails and the store is
\* as before.
C20_CreateChecked ==
    op = "create"
    => IF args.role \notin RoleNames
       THEN /\ result = "UnknownRole"
            /\ users = before
            /\ Calls(trace, {"find_user", "add_user"}) = <<>>
            /\ trace[2] = Ev("find_role", 0, FALSE)
       ELSE IF \E id \in DOMAIN before : before[id].username = args.username
       THEN /\ result = "exists"
            /\ users = before
            /\ Calls(trace, {"add_user"}) = <<>>
       ELSE /\ Len(Calls(trace, {"add_user"})) = 1
            /\ IF Calls(trace, {"add_user"})[1].ok
               THEN /\ result = "ok"
                    /\ OneMore(before, users,
                               [username |-> args.username,
                                firstname |-> args.firstname,
                                lastname |-> args.lastname,
                                email |-> args.email,
                                roles |-> <<args.role>>])
                    /\ \A id \in DOMAIN users \ DOMAIN before :
                           users[id].password = args.password
               ELSE /\ result = "StoreError"
                    /\ users = before

\* the username is held by a user that an import made: its email, names,
\* roles and password are not those of the arguments, and stay
C20_Witness ==
    \E id \in DOMAIN before :
        /\ op = "create"
        /\ args.role \in RoleNames
        /\ before[id].username = args.username
        /\ before[id].email # args.email
        /\ before[id].first_name # args.firstname
        /\ before[id].roles # <<args.role>>
        /\ before[id].password # args.password
        /\ result = "exists"
        /\ users = before
====
